---- MODULE Spec2Model ----
(***************************************************************************)
(* Model of the MapReads stage of ghost (src/src/map_reads.rs): a pool of  *)
(* num_threads workers that pull records from one mutex-protected FASTQ    *)
(* iterator, classify each read with the pseudoaligner's map_read, and     *)
(* push the result on a bounded channel; the stage's own thread consumes   *)
(* the channel, counts the workers' None sentinels and reduces the         *)
(* accumulated results into two maps keyed by read id.                     *)
(*                                                                         *)
(* The CorrectBarcodes stage (src/src/correct_barcodes.rs) and the         *)
(* CountUmi stage (src/src/count_umi.rs) are sequential; each has its own  *)
(* specification below, in which the other stages stay idle.               *)
(***************************************************************************)
EXTENDS Integers, Sequences, FiniteSets, TLC

(* ------------------------------ bounds --------------------------------- *)

\* Number of worker threads (12 in the stage; scaled down for checking).
num_threads == 2

\* Longest read source explored.
MaxReads == 2

(* ------------------------- program constants --------------------------- *)

\* config::READ_COVERAGE_THRESHOLD of the debruijn_mapping crate.
READ_COVERAGE_THRESHOLD == 32

(* ---------------------------- the inputs -------------------------------- *)

Workers == 1..num_threads

\* Read identifiers: as many as a source has reads, so that its ids can be
\* pairwise distinct or repeat.
ReadIds == 1..MaxReads

\* The sequences a record can carry; map_read below is the stub index over them.
SeqKinds == {"nohit", "low", "hit", "hit2", "multi"}

\* One item of the FASTQ iterator: a parsed record or a parse error.
OkRecords == [kind : {"ok"}, id : ReadIds, seq : SeqKinds]

ErrRecord == [kind |-> "err"]

Records == OkRecords \cup {ErrRecord}

\* What get_next_record returns once the iterator is exhausted.
EndOfInput == [kind |-> "end"]

RECURSIVE SeqsUpTo(_, _)
SeqsUpTo(S, n) ==
    IF n = 0 THEN {<<>>}
    ELSE LET shorter == SeqsUpTo(S, n - 1)
         IN  shorter \cup {Append(s, x) : s \in {t \in shorter : Len(t) = n - 1}, x \in S}

\* Identifiers are names: a source numbers them in order of first appearance.
IdsInOrder(s) ==
    \A i \in DOMAIN s :
        s[i].kind = "ok" =>
            \A k \in 1..(s[i].id - 1) : \E j \in 1..(i - 1) : s[j].kind = "ok" /\ s[j].id = k

Sources == {s \in SeqsUpTo(Records, MaxReads) : IdsInOrder(s)}

\* The external aligner: Option<(eq_class, coverage)> as a deterministic
\* function of the read's sequence.
NoHit == [some |-> FALSE]

Hit(eq, cov) == [some |-> TRUE, eq_class |-> eq, coverage |-> cov]

map_read(seq) ==
    CASE seq = "nohit" -> NoHit
      [] seq = "low"   -> Hit(<<>>, READ_COVERAGE_THRESHOLD - 1)
      [] seq = "hit"   -> Hit(<<>>, READ_COVERAGE_THRESHOLD)
      [] seq = "hit2"  -> Hit(<<>>, READ_COVERAGE_THRESHOLD + 1)
      [] seq = "multi" -> Hit(<<1>>, READ_COVERAGE_THRESHOLD)

(* --------------------------- channel values ----------------------------- *)

\* Option<(bool, String, Vec<u32>, usize)>: None is the sentinel.
Sentinel == [some |-> FALSE]

ReadData(m, id, eq, cov) ==
    [some |-> TRUE, mapped |-> m, id |-> id, eq_class |-> eq, coverage |-> cov]

\* The classification with a strict comparison against the threshold.
wrapped_read_data_Strict(record) ==
    LET read_data == map_read(record.seq)
    IN  IF read_data.some
        THEN IF read_data.coverage > READ_COVERAGE_THRESHOLD /\ read_data.eq_class = <<>>
             THEN ReadData(TRUE, record.id, read_data.eq_class, read_data.coverage)
             ELSE ReadData(FALSE, record.id, read_data.eq_class, read_data.coverage)
        ELSE ReadData(FALSE, record.id, <<>>, 0)

\* The classification that takes a non-empty class for a mapped read.
wrapped_read_data_NonEmpty(record) ==
    LET read_data == map_read(record.seq)
    IN  IF read_data.some
        THEN IF read_data.coverage >= READ_COVERAGE_THRESHOLD /\ read_data.eq_class # <<>>
             THEN ReadData(TRUE, record.id, read_data.eq_class, read_data.coverage)
             ELSE ReadData(FALSE, record.id, read_data.eq_class, read_data.coverage)
        ELSE ReadData(FALSE, record.id, <<>>, 0)

\* The classification of one record (the match on map_read's result).
wrapped_read_data(record) ==
    LET read_data == map_read(record.seq)
    IN  IF read_data.some
        THEN IF read_data.coverage >= READ_COVERAGE_THRESHOLD /\ read_data.eq_class = <<>>
             THEN ReadData(TRUE, record.id, read_data.eq_class, read_data.coverage)
             ELSE ReadData(FALSE, record.id, read_data.eq_class, read_data.coverage)
        ELSE ReadData(FALSE, record.id, <<>>, 0)

(* ----------------------------- the maps --------------------------------- *)

EmptyMap == [k \in {} |-> 0]

\* An insert that keeps the value a key already has (entry().or_insert()).
Insert_KeepFirst(m, k, v) ==
    [x \in (DOMAIN m) \cup {k} |-> IF x \in DOMAIN m THEN m[x] ELSE v]

\* HashMap::insert: a later insert of the same key overwrites the value.
Insert(m, k, v) == [x \in (DOMAIN m) \cup {k} |-> IF x = k THEN v ELSE m[x]]

\* The reduction inserting every accumulated result, mapped or not.
RECURSIVE Reduce_NoFilter(_, _, _)
Reduce_NoFilter(list, i, maps) ==
    IF i > Len(list) THEN maps
    ELSE LET read_data == list[i]
         IN  Reduce_NoFilter(list, i + 1,
                 [eq_classes |-> Insert(maps.eq_classes, read_data.id, read_data.eq_class),
                  coverage   |-> Insert(maps.coverage, read_data.id, read_data.coverage)])

\* The reduction keyed by a result's position of arrival instead of its read id.
RECURSIVE Reduce_KeyByArrival(_, _, _)
Reduce_KeyByArrival(list, i, maps) ==
    IF i > Len(list) THEN maps
    ELSE LET read_data == list[i]
         IN  IF read_data.mapped
             THEN Reduce_KeyByArrival(list, i + 1,
                         [eq_classes |-> Insert(maps.eq_classes, i, read_data.eq_class),
                          coverage   |-> Insert(maps.coverage, i, read_data.coverage)])
             ELSE Reduce_KeyByArrival(list, i + 1, maps)

\* The reduction loop over the accumulated results, in accumulation order.
RECURSIVE Reduce(_, _, _)
Reduce(list, i, maps) ==
    IF i > Len(list) THEN maps
    ELSE LET read_data == list[i]
         IN  IF read_data.mapped
             THEN Reduce(list, i + 1,
                         [eq_classes |-> Insert(maps.eq_classes, read_data.id, read_data.eq_class),
                          coverage   |-> Insert(maps.coverage, read_data.id, read_data.coverage)])
             ELSE Reduce(list, i + 1, maps)

(* ------------------------------ state ----------------------------------- *)

VARIABLES
    source,               \* the items the FASTQ iterator yields, in order
    cursor,               \* how many of them have been taken
    lock,                 \* holder of the iterator's mutex, 0 when free
    pc,                   \* each worker's position
    record,               \* each worker's last result of get_next_record
    out,                  \* each worker's classified result awaiting its send
    chan,                 \* the sync_channel's buffer
    aggPc,                \* the consumer's position
    dead_thread_count,    \* sentinels counted by the consumer
    read_counter,         \* results received
    mapped_read_counter,  \* results received with mapped = true
    mapped,               \* the accumulated results
    eq_classes,           \* output map read id -> equivalence class
    coverage,             \* output map read id -> coverage
    lateSend,             \* history: the worker sent a value after its sentinel
    nSentinel             \* history: sentinels each worker has sent

vars == <<source, cursor, lock, pc, record, out, chan, aggPc, dead_thread_count,
          read_counter, mapped_read_counter, mapped, eq_classes, coverage,
          lateSend, nSentinel>>

VARIABLES
    mm_sequence,          \* mismatches: its first argument
    mm_reference,         \* mismatches: its second argument
    mm_result,            \* mismatches: the value returned, NotCalled before the call
    barcodes,             \* CorrectBarcodes: the reads' barcodes, in read order
    barcode_set,          \* CorrectBarcodes: the whitelist
    cbPc,                 \* CorrectBarcodes: position in main
    valid_barcodes,       \* CorrectBarcodes: the output vector
    invalid_barcodes,     \* CorrectBarcodes: the barcodes not in the whitelist
    corrected_barcodes,   \* CorrectBarcodes: the barcodes within one mismatch
    read_records,         \* CountUmi: the records read from the FASTQ
    umis,                 \* CountUmi: the output vector
    umiPc,                \* CountUmi: position in main
    slice_asserts         \* whether the build's DnaString::slice checks its coordinates

mmVars == <<mm_sequence, mm_reference, mm_result>>

cbVars == <<barcodes, barcode_set, cbPc, valid_barcodes, invalid_barcodes,
            corrected_barcodes>>

umiVars == <<read_records, umis, umiPc, slice_asserts>>

\* The variables of the stages other than MapReads.
otherStageVars == <<mmVars, cbVars, umiVars>>

allVars == <<vars, otherStageVars>>

\* What a step of the consumer leaves unchanged.
workerVars == <<cursor, lock, pc, record, out, lateSend, nSentinel, otherStageVars>>

\* What a step of a worker leaves unchanged.
aggVars == <<aggPc, dead_thread_count, read_counter, mapped_read_counter, mapped,
             eq_classes, coverage, otherStageVars>>

\* Option values: None, and Some(x).
None == <<>>

Some(x) == <<x>>

\* The function has not returned yet.
NotCalled == None

\* The variables of the mismatches call while another stage runs.
MismatchIdle ==
    /\ mm_sequence = <<>>
    /\ mm_reference = <<>>
    /\ mm_result = NotCalled

\* The CorrectBarcodes stage while another stage runs.
BarcodesIdle ==
    /\ barcodes = <<>>
    /\ barcode_set = {}
    /\ cbPc = "idle"
    /\ valid_barcodes = <<>>
    /\ invalid_barcodes = <<>>
    /\ corrected_barcodes = <<>>

\* The CountUmi stage while another stage runs.
UmiIdle ==
    /\ read_records = <<>>
    /\ umis = <<>>
    /\ umiPc = "idle"
    /\ slice_asserts = TRUE

NoRecord == [kind |-> "none"]

\* The MapReads stage before its threads start, but for its read source.
PipelineStart ==
    /\ cursor = 0
    /\ lock = 0
    /\ pc = [w \in Workers |-> "fetch"]
    /\ record = [w \in Workers |-> NoRecord]
    /\ out = [w \in Workers |-> Sentinel]
    /\ chan = <<>>
    /\ aggPc = "recv"
    /\ dead_thread_count = 0
    /\ read_counter = 0
    /\ mapped_read_counter = 0
    /\ mapped = <<>>
    /\ eq_classes = EmptyMap
    /\ coverage = EmptyMap
    /\ lateSend = [w \in Workers |-> FALSE]
    /\ nSentinel = [w \in Workers |-> 0]

\* The MapReads stage while another stage runs.
PipelineIdle == source = <<>> /\ PipelineStart

Init ==
    /\ MismatchIdle
    /\ BarcodesIdle
    /\ UmiIdle
    /\ source \in Sources
    /\ PipelineStart

(* ----------------------------- workers ---------------------------------- *)

\* rx is a local of main: it lives until main returns or unwinds.
RxAlive == aggPc \notin {"done", "aborted"}

\* AcquireCursor that does not wait for the mutex to be free.
AcquireCursor_NoWait(w) ==
    /\ pc[w] = "fetch"
    /\ lock' = w
    /\ pc' = [pc EXCEPT ![w] = "locked"]
    /\ UNCHANGED <<source, cursor, record, out, chan, lateSend, nSentinel>>
    /\ UNCHANGED aggVars

\* get_next_record: reader.lock() blocks until the mutex is free.
AcquireCursor(w) ==
    /\ pc[w] = "fetch"
    /\ lock = 0
    /\ lock' = w
    /\ pc' = [pc EXCEPT ![w] = "locked"]
    /\ UNCHANGED <<source, cursor, record, out, chan, lateSend, nSentinel>>
    /\ UNCHANGED aggVars

\* get_next_record: lock.next() under the guard, which is dropped on return.
NextRecord(w) ==
    /\ pc[w] = "locked"
    /\ IF cursor < Len(source)
       THEN /\ record' = [record EXCEPT ![w] = source[cursor + 1]]
            /\ cursor' = cursor + 1
       ELSE /\ record' = [record EXCEPT ![w] = EndOfInput]
            /\ cursor' = cursor
    /\ lock' = 0
    /\ pc' = [pc EXCEPT ![w] = "match"]
    /\ UNCHANGED <<source, out, chan, lateSend, nSentinel>>
    /\ UNCHANGED aggVars

\* Some(Ok(record)): map the read and classify the result.
MapRecord(w) ==
    /\ pc[w] = "match"
    /\ record[w].kind = "ok"
    /\ out' = [out EXCEPT ![w] = wrapped_read_data(record[w])]
    /\ pc' = [pc EXCEPT ![w] = "send"]
    /\ UNCHANGED <<source, cursor, lock, record, chan, lateSend, nSentinel>>
    /\ UNCHANGED aggVars

\* Some(Err(err)): panic!; the thread unwinds and drops its sender.
PanicOnErr(w) ==
    /\ pc[w] = "match"
    /\ record[w].kind = "err"
    /\ pc' = [pc EXCEPT ![w] = "panicked"]
    /\ UNCHANGED <<source, cursor, lock, record, out, chan, lateSend, nSentinel>>
    /\ UNCHANGED aggVars

\* SendResult on a channel without a bound.
SendResult_Unbounded(w) ==
    /\ pc[w] = "send"
    /\ chan' = Append(chan, out[w])
    /\ lateSend' = [lateSend EXCEPT ![w] = @ \/ nSentinel[w] >= 1]
    /\ pc' = [pc EXCEPT ![w] = "fetch"]
    /\ record' = [record EXCEPT ![w] = NoRecord]
    /\ out' = [out EXCEPT ![w] = Sentinel]
    /\ UNCHANGED <<source, cursor, lock, nSentinel>>
    /\ UNCHANGED aggVars

\* tx.send(wrapped_read_data): blocks while the buffer holds num_threads values;
\* with the receiver gone it returns Err and .expect("Could not send data!")
\* panics.
SendResult(w) ==
    /\ pc[w] = "send"
    /\ IF RxAlive
       THEN /\ Len(chan) < num_threads
            /\ chan' = Append(chan, out[w])
            /\ lateSend' = [lateSend EXCEPT ![w] = @ \/ nSentinel[w] >= 1]
            /\ pc' = [pc EXCEPT ![w] = "fetch"]
            /\ record' = [record EXCEPT ![w] = NoRecord]
            /\ out' = [out EXCEPT ![w] = Sentinel]
       ELSE /\ pc' = [pc EXCEPT ![w] = "sendfail"]
            /\ UNCHANGED <<chan, lateSend, record, out>>
    /\ UNCHANGED <<source, cursor, lock, nSentinel>>
    /\ UNCHANGED aggVars

\* The None arm without its send: the worker just leaves its loop.
SendSentinel_Missing(w) ==
    /\ pc[w] = "match"
    /\ record[w].kind = "end"
    /\ pc' = [pc EXCEPT ![w] = "break"]
    /\ UNCHANGED <<source, cursor, lock, record, out, chan, lateSend, nSentinel>>
    /\ UNCHANGED aggVars

\* The None arm without its break: the worker sends None and loops again.
SendSentinel_NoBreak(w) ==
    /\ pc[w] = "match"
    /\ record[w].kind = "end"
    /\ Len(chan) < num_threads
    /\ chan' = Append(chan, Sentinel)
    /\ lateSend' = [lateSend EXCEPT ![w] = @ \/ nSentinel[w] >= 1]
    /\ nSentinel' = [nSentinel EXCEPT ![w] = @ + 1]
    /\ pc' = [pc EXCEPT ![w] = "fetch"]
    /\ UNCHANGED <<source, cursor, lock, record, out>>
    /\ UNCHANGED aggVars

\* None: tx.send(None); once the send has returned the worker is at its break,
\* still holding its sender. With the receiver gone the send returns Err and
\* .expect panics.
SendSentinel(w) ==
    /\ pc[w] = "match"
    /\ record[w].kind = "end"
    /\ IF RxAlive
       THEN /\ Len(chan) < num_threads
            /\ chan' = Append(chan, Sentinel)
            /\ lateSend' = [lateSend EXCEPT ![w] = @ \/ nSentinel[w] >= 1]
            /\ nSentinel' = [nSentinel EXCEPT ![w] = @ + 1]
            /\ pc' = [pc EXCEPT ![w] = "break"]
       ELSE /\ pc' = [pc EXCEPT ![w] = "sendfail"]
            /\ UNCHANGED <<chan, lateSend, nSentinel>>
    /\ UNCHANGED <<source, cursor, lock, record, out>>
    /\ UNCHANGED aggVars

\* break leaves the loop and the closure ends: the thread's clone of tx is
\* dropped.
EndThread(w) ==
    /\ pc[w] = "break"
    /\ pc' = [pc EXCEPT ![w] = "done"]
    /\ UNCHANGED <<source, cursor, lock, record, out, chan, lateSend, nSentinel>>
    /\ UNCHANGED aggVars

Worker(w) ==
    \/ AcquireCursor(w)
    \/ NextRecord(w)
    \/ MapRecord(w)
    \/ PanicOnErr(w)
    \/ SendResult(w)
    \/ SendSentinel(w)
    \/ EndThread(w)

(* ---------------------------- the consumer ------------------------------ *)

\* A worker's clone of tx is alive until its thread ends: a worker at its
\* break, its sentinel sent, still holds it.
SenderAlive(w) == pc[w] \notin {"done", "panicked", "sendfail"}

\* Recv with the sentinel count compared against one thread too few.
Recv_EarlyBreak ==
    /\ aggPc = "recv"
    /\ Len(chan) > 0
    /\ chan' = Tail(chan)
    /\ IF Head(chan).some
       THEN /\ mapped_read_counter' =
                   IF Head(chan).mapped THEN mapped_read_counter + 1 ELSE mapped_read_counter
            /\ read_counter' = read_counter + 1
            /\ mapped' = Append(mapped, Head(chan))
            /\ UNCHANGED <<dead_thread_count, aggPc>>
       ELSE /\ dead_thread_count' = dead_thread_count + 1
            /\ aggPc' = IF dead_thread_count + 1 = num_threads - 1 THEN "drain" ELSE "recv"
            /\ UNCHANGED <<mapped_read_counter, read_counter, mapped>>
    /\ UNCHANGED <<source, eq_classes, coverage>>
    /\ UNCHANGED workerVars

\* Recv accumulating only the results whose mapped flag is set.
Recv_DropUnmapped ==
    /\ aggPc = "recv"
    /\ Len(chan) > 0
    /\ chan' = Tail(chan)
    /\ IF Head(chan).some
       THEN /\ mapped_read_counter' =
                   IF Head(chan).mapped THEN mapped_read_counter + 1 ELSE mapped_read_counter
            /\ read_counter' = read_counter + 1
            /\ mapped' = IF Head(chan).mapped THEN Append(mapped, Head(chan)) ELSE mapped
            /\ UNCHANGED <<dead_thread_count, aggPc>>
       ELSE /\ dead_thread_count' = dead_thread_count + 1
            /\ aggPc' = IF dead_thread_count + 1 = num_threads THEN "drain" ELSE "recv"
            /\ UNCHANGED <<mapped_read_counter, read_counter, mapped>>
    /\ UNCHANGED <<source, eq_classes, coverage>>
    /\ UNCHANGED workerVars

\* Recv taking the first None for the end of the stream: the consumer leaves
\* its loop and goes on to build the output without waiting for the workers.
Recv_StopAtFirstSentinel ==
    /\ aggPc = "recv"
    /\ Len(chan) > 0
    /\ chan' = Tail(chan)
    /\ IF Head(chan).some
       THEN /\ mapped_read_counter' =
                   IF Head(chan).mapped THEN mapped_read_counter + 1 ELSE mapped_read_counter
            /\ read_counter' = read_counter + 1
            /\ mapped' = Append(mapped, Head(chan))
            /\ UNCHANGED <<dead_thread_count, aggPc>>
       ELSE /\ dead_thread_count' = dead_thread_count + 1
            /\ aggPc' = "reduce"
            /\ UNCHANGED <<mapped_read_counter, read_counter, mapped>>
    /\ UNCHANGED <<source, eq_classes, coverage>>
    /\ UNCHANGED workerVars

\* One iteration of the outer `for eq_class in rx.iter()`.
Recv ==
    /\ aggPc = "recv"
    /\ Len(chan) > 0
    /\ chan' = Tail(chan)
    /\ IF Head(chan).some
       THEN /\ mapped_read_counter' =
                   IF Head(chan).mapped THEN mapped_read_counter + 1 ELSE mapped_read_counter
            /\ read_counter' = read_counter + 1
            /\ mapped' = Append(mapped, Head(chan))
            /\ UNCHANGED <<dead_thread_count, aggPc>>
       ELSE /\ dead_thread_count' = dead_thread_count + 1
            /\ aggPc' = IF dead_thread_count + 1 = num_threads THEN "drain" ELSE "recv"
            /\ UNCHANGED <<mapped_read_counter, read_counter, mapped>>
    /\ UNCHANGED <<source, eq_classes, coverage>>
    /\ UNCHANGED workerVars

\* One step of the inner `for eq_class in rx.iter()` after drop(tx): a buffered
\* value is printed, not accumulated; the iterator ends once the buffer is empty
\* and every sender is gone, and break then leaves the outer loop.
Drain ==
    /\ aggPc = "drain"
    /\ IF Len(chan) > 0
       THEN /\ chan' = Tail(chan)
            /\ aggPc' = "drain"
       ELSE /\ \A w \in Workers : ~SenderAlive(w)
            /\ chan' = chan
            /\ aggPc' = "join"
    /\ UNCHANGED <<source, dead_thread_count, read_counter, mapped_read_counter,
                   mapped, eq_classes, coverage>>
    /\ UNCHANGED workerVars

\* scope(..) joins the workers and returns Err if one panicked; .unwrap().
JoinScope ==
    /\ aggPc = "join"
    /\ \A w \in Workers : ~SenderAlive(w)
    /\ aggPc' = IF \E w \in Workers : pc[w] = "panicked" THEN "aborted" ELSE "reduce"
    /\ UNCHANGED <<source, chan, dead_thread_count, read_counter, mapped_read_counter,
                   mapped, eq_classes, coverage>>
    /\ UNCHANGED workerVars

\* The reduction of the accumulated results into the two output maps.
BuildOutput ==
    /\ aggPc = "reduce"
    /\ LET maps == Reduce(mapped, 1, [eq_classes |-> EmptyMap, coverage |-> EmptyMap])
       IN  /\ eq_classes' = maps.eq_classes
           /\ coverage' = maps.coverage
    /\ aggPc' = "done"
    /\ UNCHANGED <<source, chan, dead_thread_count, read_counter, mapped_read_counter,
                   mapped>>
    /\ UNCHANGED workerVars

Aggregator ==
    \/ Recv
    \/ Drain
    \/ JoinScope
    \/ BuildOutput

Next ==
    \/ \E w \in Workers : Worker(w)
    \/ Aggregator

Spec == Init /\ [][Next]_allVars

\* OS threads: every thread that can take a step eventually takes one.
FairSpec ==
    /\ Spec
    /\ \A w \in Workers : WF_allVars(Worker(w))
    /\ WF_allVars(Aggregator)

(* --------------------------- mismatches --------------------------------- *)

\* Longest string handed to mismatches.
MaxStrLen == 4

\* The strings handed to mismatches: sequences of characters.
MmStrings == SeqsUpTo({"A", "T"}, MaxStrLen)

\* mismatches counting every differing position, without the early exit.
RECURSIVE mismatches_countAll(_, _, _, _)
mismatches_countAll(sequence, reference, i, mismatch) ==
    IF i > Len(reference) \/ i > Len(sequence) THEN mismatch
    ELSE IF reference[i] # sequence[i]
         THEN mismatches_countAll(sequence, reference, i + 1, mismatch + 1)
         ELSE mismatches_countAll(sequence, reference, i + 1, mismatch)

mismatches_NoEarlyExit(sequence, reference) ==
    mismatches_countAll(sequence, reference, 1, 0)

\* The loop over reference.chars().zip(sequence.chars()): i is the position
\* of the next pair, mismatch the count so far; the loop breaks once the
\* count exceeds 1.
RECURSIVE mismatches_loop(_, _, _, _)
mismatches_loop(sequence, reference, i, mismatch) ==
    IF i > Len(reference) \/ i > Len(sequence) THEN mismatch
    ELSE IF reference[i] # sequence[i]
         THEN IF mismatch + 1 > 1
              THEN mismatch + 1
              ELSE mismatches_loop(sequence, reference, i + 1, mismatch + 1)
         ELSE mismatches_loop(sequence, reference, i + 1, mismatch)

mismatches(sequence, reference) == mismatches_loop(sequence, reference, 1, 0)

MismatchInit ==
    /\ PipelineIdle
    /\ BarcodesIdle
    /\ UmiIdle
    /\ mm_sequence \in MmStrings
    /\ mm_reference \in MmStrings
    /\ mm_result = NotCalled

CallMismatches ==
    /\ mm_result = NotCalled
    /\ mm_result' = Some(mismatches(mm_sequence, mm_reference))
    /\ UNCHANGED <<mm_sequence, mm_reference>>
    /\ UNCHANGED <<vars, cbVars, umiVars>>

MismatchNext == CallMismatches

MismatchSpec == MismatchInit /\ [][MismatchNext]_allVars

(* ------------------------- CorrectBarcodes ------------------------------ *)

\* parse_barcode takes the first 16 symbols of a read.
BARCODE_LEN == 16

\* Number of leading positions in which the barcodes explored differ.
BarcodeVarLen == 2

\* Most reads in the FASTQ.
MaxBarcodeReads == 2

\* Most lines in the whitelist file.
MaxWhitelist == 2

\* A string of BARCODE_LEN symbols: the given prefix, then "A"s.
PadToBarcode(prefix) ==
    [i \in 1..BARCODE_LEN |-> IF i <= Len(prefix) THEN prefix[i] ELSE "A"]

BarcodePrefixes == {p \in SeqsUpTo({"A", "T"}, BarcodeVarLen) : Len(p) = BarcodeVarLen}

\* The barcodes parse_barcode can return for the reads explored.
ReadBarcodes == {PadToBarcode(p) : p \in BarcodePrefixes}

\* The lines a whitelist file can hold: barcodes, and a line that is too short.
WhitelistLines == ReadBarcodes \cup {<<"T">>}

Whitelists == {W \in SUBSET WhitelistLines : Cardinality(W) <= MaxWhitelist}

\* The letters in byte order: "A" is byte 65 and "a" is byte 97.
UpperCase ==
    <<"A", "B", "C", "D", "E", "F", "G", "H", "I", "J", "K", "L", "M",
      "N", "O", "P", "Q", "R", "S", "T", "U", "V", "W", "X", "Y", "Z">>

LowerCase ==
    <<"a", "b", "c", "d", "e", "f", "g", "h", "i", "j", "k", "l", "m",
      "n", "o", "p", "q", "r", "s", "t", "u", "v", "w", "x", "y", "z">>

\* The byte of a letter: String's Ord compares strings byte by byte.
CharRank(c) ==
    IF \E i \in DOMAIN UpperCase : UpperCase[i] = c
    THEN 64 + (CHOOSE i \in DOMAIN UpperCase : UpperCase[i] = c)
    ELSE 96 + (CHOOSE i \in DOMAIN LowerCase : LowerCase[i] = c)

\* String's Ord: lexicographic, a proper prefix first.
RECURSIVE LexLessFrom(_, _, _)
LexLessFrom(a, b, i) ==
    IF i > Len(b) THEN FALSE
    ELSE IF i > Len(a) THEN TRUE
    ELSE IF a[i] # b[i] THEN CharRank(a[i]) < CharRank(b[i])
    ELSE LexLessFrom(a, b, i + 1)

LexLess(a, b) == LexLessFrom(a, b, 1)

\* Insert x into a sorted vector, keeping it sorted.
RECURSIVE InsertSorted(_, _)
InsertSorted(list, x) ==
    IF list = <<>> THEN <<x>>
    ELSE IF LexLess(x, Head(list)) THEN <<x>> \o list
    ELSE <<Head(list)>> \o InsertSorted(Tail(list), x)

\* par_sort_unstable: the vector in ascending order, duplicates kept.
RECURSIVE Sort(_)
Sort(list) == IF list = <<>> THEN <<>> ELSE InsertSorted(Sort(Tail(list)), Head(list))

\* Vec::dedup: consecutive repeated elements are removed.
RECURSIVE Dedup(_)
Dedup(list) ==
    IF Len(list) <= 1 THEN list
    ELSE IF list[1] = list[2] THEN Dedup(Tail(list))
    ELSE <<list[1]>> \o Dedup(Tail(list))

\* Vec::contains.
Contains(list, x) == \E i \in DOMAIN list : list[i] = x

\* Iterator::min: None on an empty collection.
MinOption(S) == IF S = {} THEN None ELSE Some(CHOOSE m \in S : \A n \in S : m <= n)

\* mismatches_par taking the largest count over the whitelist.
mismatches_par_Max(sequence, references) ==
    LET S == {mismatches(sequence, x) : x \in references}
    IN  IF S = {} THEN None ELSE Some(CHOOSE m \in S : \A n \in S : n <= m)

\* mismatches_par before its unwrap: the least count over the whitelist.
mismatches_par(sequence, references) ==
    MinOption({mismatches(sequence, x) : x \in references})

\* The loop pushing every corrected barcode, present already or not.
RECURSIVE PushMissing_NoCheck(_, _, _)
PushMissing_NoCheck(valid, corrected, i) ==
    IF i > Len(corrected) THEN valid
    ELSE PushMissing_NoCheck(Append(valid, corrected[i]), corrected, i + 1)

\* The loop over corrected_barcodes: a barcode not yet in valid_barcodes is
\* pushed at its end.
RECURSIVE PushMissing(_, _, _)
PushMissing(valid, corrected, i) ==
    IF i > Len(corrected) THEN valid
    ELSE IF ~Contains(valid, corrected[i])
         THEN PushMissing(Append(valid, corrected[i]), corrected, i + 1)
         ELSE PushMissing(valid, corrected, i + 1)

BarcodeInit ==
    /\ PipelineIdle
    /\ MismatchIdle
    /\ UmiIdle
    /\ barcodes \in SeqsUpTo(ReadBarcodes, MaxBarcodeReads)
    /\ barcode_set \in Whitelists
    /\ cbPc = "valid"
    /\ valid_barcodes = <<>>
    /\ invalid_barcodes = <<>>
    /\ corrected_barcodes = <<>>

\* The barcodes in the whitelist, sorted and deduplicated.
FindValid ==
    /\ cbPc = "valid"
    /\ LET InSet(x) == x \in barcode_set
       IN  valid_barcodes' = Dedup(Sort(SelectSeq(barcodes, InSet)))
    /\ cbPc' = "invalid"
    /\ UNCHANGED <<barcodes, barcode_set, invalid_barcodes, corrected_barcodes>>
    /\ UNCHANGED <<vars, mmVars, umiVars>>

\* The barcodes not in the whitelist, sorted and deduplicated.
FindInvalid ==
    /\ cbPc = "invalid"
    /\ LET NotInSet(x) == x \notin barcode_set
       IN  invalid_barcodes' = Dedup(Sort(SelectSeq(barcodes, NotInSet)))
    /\ cbPc' = "correct"
    /\ UNCHANGED <<barcodes, barcode_set, valid_barcodes, corrected_barcodes>>
    /\ UNCHANGED <<vars, mmVars, umiVars>>

\* The barcodes within one mismatch of the whitelist, collected in read
\* order; unwrap panics when min() finds no whitelist entry to compare with.
FindCorrected ==
    /\ cbPc = "correct"
    /\ IF \E i \in DOMAIN barcodes : mismatches_par(barcodes[i], barcode_set) = None
       THEN /\ cbPc' = "panicked"
            /\ corrected_barcodes' = corrected_barcodes
       ELSE /\ LET Close(x) == mismatches_par(x, barcode_set)[1] <= 1
               IN  corrected_barcodes' = SelectSeq(barcodes, Close)
            /\ cbPc' = "merge"
    /\ UNCHANGED <<barcodes, barcode_set, valid_barcodes, invalid_barcodes>>
    /\ UNCHANGED <<vars, mmVars, umiVars>>

\* The corrected barcodes are merged into valid_barcodes, which is returned.
MergeCorrected ==
    /\ cbPc = "merge"
    /\ valid_barcodes' = PushMissing(valid_barcodes, corrected_barcodes, 1)
    /\ cbPc' = "done"
    /\ UNCHANGED <<barcodes, barcode_set, invalid_barcodes, corrected_barcodes>>
    /\ UNCHANGED <<vars, mmVars, umiVars>>

BarcodeNext ==
    \/ FindValid
    \/ FindInvalid
    \/ FindCorrected
    \/ MergeCorrected

BarcodeSpec == BarcodeInit /\ [][BarcodeNext]_allVars

(* ------------------------------ CountUmi -------------------------------- *)

\* parse_umi takes the symbols from offset UMI_START up to, not including,
\* offset UMI_END.
UMI_START == 16

UMI_END == 26

\* Most reads in the FASTQ.
MaxUmiReads == 2

\* The four symbols a DnaString can hold.
Bases == <<"A", "C", "G", "T">>

BaseSet == {Bases[i] : i \in DOMAIN Bases}

\* A read whose symbol at every offset depends on the offset, but for the
\* given symbols at offsets UMI_START and UMI_END - 1.
UmiRead(len, first, last) ==
    [i \in 1..len |->
        IF i = UMI_START + 1 THEN first
        ELSE IF i = UMI_END THEN last
        ELSE Bases[(i % 4) + 1]]

\* Read sequences of exactly UMI_END symbols, longer, one symbol short of
\* UMI_END and one symbol short of UMI_START, with "N" at either end of the UMI
\* or not.
UmiReadSeqs ==
    {UmiRead(len, first, last) :
        len \in {UMI_START - 1, UMI_END - 1, UMI_END, UMI_END + 4},
        first \in {"A", "N"}, last \in {"G", "N"}}

\* The record vectors read from the FASTQ; a record's id is its position.
UmiRecordLists ==
    UNION {{[i \in 1..n |-> [id |-> i, seq |-> f[i]]] : f \in [1..n -> UmiReadSeqs]} :
               n \in 0..MaxUmiReads}

\* The positions of a sequence that hold no A, C, G or T.
NonAcgt(seq) == {i \in DOMAIN seq : seq[i] \notin BaseSet}

\* DnaString::from_acgt_bytes_hashn: A, C, G and T are kept; any other symbol
\* becomes the base the hash of the seed and the position selects, hashed[i].
from_acgt_bytes_hashn(seq, hashed) ==
    [i \in DOMAIN seq |-> IF seq[i] \in BaseSet THEN seq[i] ELSE hashed[i]]

\* The symbols of a DnaString from offset start up to, not including, offset
\* end, read without a check of the coordinates: an offset beyond the length
\* of the string reads its zeroed padding, which prints as "A".
slice_Unchecked(sequence, start, end) ==
    [k \in 1..(end - start) |->
        IF start + k <= Len(sequence) THEN sequence[start + k] ELSE "A"]

\* DnaString::slice(start, end) followed by to_string. With a coordinate beyond
\* the length of the string, a build whose slice asserts its coordinates
\* panics (None); a build whose slice does not returns the padded symbols.
slice(sequence, start, end) ==
    IF slice_asserts /\ (start > Len(sequence) \/ end > Len(sequence))
    THEN None
    ELSE Some(slice_Unchecked(sequence, start, end))

\* parse_umi: Some(umi), or None when slice panics.
parse_umi(rec, hashed) ==
    slice(from_acgt_bytes_hashn(rec.seq, hashed), UMI_START, UMI_END)

UmiInit ==
    /\ PipelineIdle
    /\ MismatchIdle
    /\ BarcodesIdle
    /\ read_records \in UmiRecordLists
    /\ umis = [i \in DOMAIN read_records |-> None]
    /\ umiPc = "map"
    /\ slice_asserts \in BOOLEAN

\* One element of the parallel map: parse_umi on record i, its result placed
\* at position i. A panic in parse_umi is carried to main, which unwinds
\* without a result.
ParseRecord(i) ==
    /\ umiPc = "map"
    /\ umis[i] = None
    /\ \E hashed \in [NonAcgt(read_records[i].seq) -> BaseSet] :
           IF parse_umi(read_records[i], hashed) = None
           THEN /\ umiPc' = "panicked"
                /\ umis' = umis
           ELSE /\ umis' = [umis EXCEPT ![i] = parse_umi(read_records[i], hashed)]
                /\ umiPc' = umiPc
    /\ UNCHANGED <<read_records, slice_asserts>>
    /\ UNCHANGED <<vars, mmVars, cbVars>>

\* collect: every element has been mapped; the vector is returned.
CollectUmis ==
    /\ umiPc = "map"
    /\ \A i \in DOMAIN umis : umis[i] # None
    /\ umis' = [i \in DOMAIN umis |-> umis[i][1]]
    /\ umiPc' = "done"
    /\ UNCHANGED <<read_records, slice_asserts>>
    /\ UNCHANGED <<vars, mmVars, cbVars>>

UmiNext ==
    \/ \E i \in DOMAIN read_records : ParseRecord(i)
    \/ CollectUmis

UmiSpec == UmiInit /\ [][UmiNext]_allVars

(* ------------------------- derived quantities -------------------------- *)

RECURSIVE SumTo(_, _)
SumTo(f, n) == IF n = 0 THEN 0 ELSE f[n] + SumTo(f, n - 1)

SentinelsSent == SumTo(nSentinel, num_threads)

SentinelsBuffered == Cardinality({i \in DOMAIN chan : ~chan[i].some})

Count(list, x) == Cardinality({i \in DOMAIN list : list[i] = x})

Range(list) == {list[i] : i \in DOMAIN list}

SameBag(a, b) ==
    /\ Len(a) = Len(b)
    /\ \A x \in Range(a) \cup Range(b) : Count(a, x) = Count(b, x)

\* No item of the read source is a parse error.
FaultFree == \A i \in DOMAIN source : source[i].kind = "ok"

\* The consumer has left its receive loop.
Finalized == aggPc \in {"join", "reduce", "done", "aborted"}

LeftOuterLoop == aggPc # "recv"

(* ------------------------------ claims ---------------------------------- *)

\* C1: the consumer leaves its receive loop only with exactly num_threads
\* sentinels counted, its count never exceeds num_threads, and the count is
\* the number of sentinels it has actually taken off the channel.
C1_SentinelsBeforeFinalize ==
    /\ dead_thread_count <= num_threads
    /\ LeftOuterLoop => dead_thread_count = num_threads
    /\ dead_thread_count = SentinelsSent - SentinelsBuffered

\* A finished run in which results were accumulated and every sentinel counted.
C1_Witness ==
    /\ aggPc = "done"
    /\ dead_thread_count = num_threads
    /\ Len(mapped) > 0

\* C2: in a fault-free run, once the consumer has left its receive loop the
\* accumulated list holds the result of every read of the source exactly once
\* (as a bag), and the consumer has received exactly one result per read.
C2_ExpectedResults == [i \in DOMAIN source |-> wrapped_read_data(source[i])]

C2_EveryReadExactlyOnce ==
    (FaultFree /\ LeftOuterLoop) =>
        /\ SameBag(mapped, C2_ExpectedResults)
        /\ read_counter = Len(source)

\* A finished fault-free run over two reads with equal results, both kept.
C2_Witness ==
    /\ FaultFree
    /\ aggPc = "done"
    /\ Len(mapped) >= 2
    /\ mapped[1] = mapped[2]

\* Every worker has sent its sentinel and ended, and the output is built.
RunCompleted == aggPc = "done" /\ \A w \in Workers : pc[w] = "done"

\* C3: in a fault-free run under fair scheduling every worker eventually sends
\* its sentinel and ends and the consumer eventually builds the output; until
\* then some thread can always take a step.
C3_FaultFreeRunCompletes ==
    /\ FaultFree ~> RunCompleted
    /\ [](FaultFree => (RunCompleted \/ ENABLED Next))

\* A completed fault-free run over a longest source.
C3_Witness ==
    /\ FaultFree
    /\ RunCompleted
    /\ Len(source) = MaxReads
    /\ read_counter = MaxReads

\* Some worker has panicked on a malformed record.
SomeWorkerFaulted == \E w \in Workers : pc[w] = "panicked"

\* C4: once a worker has faulted the run either has aborted or still has a
\* step to take towards aborting (the consumer is never left waiting on a
\* channel nobody will write to), and no output map is ever filled.
C4_FaultAbortsRun ==
    SomeWorkerFaulted =>
        /\ aggPc = "aborted" \/ ENABLED Next
        /\ eq_classes = EmptyMap /\ coverage = EmptyMap

\* The worker has left its loop: it is at its break or has ended.
Stopped(w) == pc[w] \in {"break", "done"}

\* The worker's sends stop with its sentinel.
C5_SilentAfterSentinel ==
    \A w \in Workers :
        nSentinel[w] >= 1 => (pc'[w] \in {"break", "done"} /\ ~lateSend'[w])

\* C5: a worker sends its sentinel only once the read source is exhausted,
\* sends at most one, has left its loop exactly when it has sent it, sends nothing
\* afterwards, and at most num_threads sentinels are ever sent.
C5_OneSentinelPerWorker ==
    /\ [](\A w \in Workers :
            /\ nSentinel[w] <= 1
            /\ nSentinel[w] = 1 <=> Stopped(w)
            /\ nSentinel[w] = 1 => cursor = Len(source)
            /\ ~lateSend[w])
    /\ [](SentinelsSent <= num_threads)
    /\ [][C5_SilentAfterSentinel]_vars

\* One worker's sentinel has been counted after a result; another worker still
\* holds a result to send.
C5_Witness ==
    \E w, v \in Workers :
        /\ nSentinel[w] = 1
        /\ read_counter >= 1
        /\ dead_thread_count = 1
        /\ pc[v] = "send"

\* C6: at most one worker is inside get_next_record's critical section, the
\* mutex is held exactly by the worker inside it, and so by no worker that is
\* mapping a read, sending or blocked sending, or has ended.
C6_CursorMutualExclusion ==
    /\ \A w, v \in Workers : (pc[w] = "locked" /\ pc[v] = "locked") => w = v
    /\ \A w \in Workers : lock = w <=> pc[w] = "locked"
    /\ \A w \in Workers : pc[w] \in {"match", "send", "break", "done", "panicked"} => lock # w

\* One worker holds the cursor while another, past its fetch, holds a result
\* to send.
C6_Witness ==
    \E w, v \in Workers :
        /\ w # v
        /\ pc[w] = "locked"
        /\ lock = w
        /\ pc[v] = "send"

\* A worker about to send (a result or its sentinel).
Sending(w) == pc[w] = "send" \/ (pc[w] = "match" /\ record[w].kind = "end")

\* With the buffer full no send completes; with it empty the consumer takes
\* nothing and stays where it is unless its drain finds every sender gone.
C7_Blocking ==
    /\ Len(chan) = num_threads =>
           /\ Len(chan') <= Len(chan)
           /\ chan' = chan \/ chan' = Tail(chan)
           /\ \A w \in Workers : Sending(w) => pc'[w] = pc[w]
    /\ (Len(chan) = 0 /\ aggPc \in {"recv", "drain"}) =>
           /\ mapped' = mapped
           /\ dead_thread_count' = dead_thread_count
           /\ read_counter' = read_counter
           /\ aggPc' = aggPc \/ (aggPc = "drain" /\ \A w \in Workers : ~SenderAlive(w))

\* C7: the channel never buffers more than num_threads values, a sender finding
\* it full waits until the consumer has taken one, and the consumer waits
\* while it is empty.
C7_ChannelBounded ==
    /\ [](Len(chan) <= num_threads)
    /\ [][C7_Blocking]_vars

\* The buffer is full and a worker holds a further result it cannot send yet.
C7_Witness ==
    /\ Len(chan) = num_threads
    /\ \E w \in Workers : pc[w] = "send"

\* C8: a result about to be sent carries its read's id; without a hit it is
\* (false, empty class, 0); with a hit it carries the hit's class and coverage
\* and is mapped exactly when coverage >= READ_COVERAGE_THRESHOLD and the class
\* is empty.
C8_Classification ==
    \A w \in Workers :
        pc[w] = "send" =>
            LET hit == map_read(record[w].seq)
                res == out[w]
            IN  /\ res.some
                /\ res.id = record[w].id
                /\ ~hit.some =>
                       (res.mapped = FALSE /\ res.eq_class = <<>> /\ res.coverage = 0)
                /\ hit.some =>
                       /\ res.eq_class = hit.eq_class
                       /\ res.coverage = hit.coverage
                       /\ res.mapped <=>
                              (hit.coverage >= READ_COVERAGE_THRESHOLD /\ hit.eq_class = <<>>)
                /\ (hit.some /\ hit.coverage = READ_COVERAGE_THRESHOLD - 1
                        /\ hit.eq_class = <<>>) => ~res.mapped
                /\ (hit.some /\ hit.coverage = READ_COVERAGE_THRESHOLD
                        /\ hit.eq_class = <<>>) => res.mapped
                /\ (hit.some /\ hit.coverage = READ_COVERAGE_THRESHOLD
                        /\ hit.eq_class # <<>>) => ~res.mapped

\* Two workers hold results at the threshold: one with an empty class
\* (mapped), one with a non-empty class (not mapped).
C8_Witness ==
    \E w, v \in Workers :
        /\ pc[w] = "send" /\ pc[v] = "send"
        /\ out[w].coverage = READ_COVERAGE_THRESHOLD /\ out[w].eq_class = <<>>
        /\ out[w].mapped
        /\ out[v].coverage = READ_COVERAGE_THRESHOLD /\ out[v].eq_class # <<>>
        /\ ~out[v].mapped

\* The ids of the reads of the source whose classification is mapped.
MappedReadIds ==
    {source[i].id : i \in {j \in DOMAIN source :
        LET hit == map_read(source[j].seq)
        IN  hit.some /\ hit.coverage >= READ_COVERAGE_THRESHOLD /\ hit.eq_class = <<>>}}

\* C9: at the end of a fault-free run the two output maps have the same keys:
\* the ids of the accumulated results with mapped = true, which are the ids of
\* the reads that classify as mapped; unmapped results contribute no key.
C9_OutputKeys ==
    (FaultFree /\ aggPc = "done") =>
        /\ DOMAIN eq_classes = DOMAIN coverage
        /\ DOMAIN eq_classes = {mapped[i].id : i \in {j \in DOMAIN mapped : mapped[j].mapped}}
        /\ DOMAIN eq_classes = MappedReadIds

\* A finished fault-free run with one mapped and one unmapped read.
C9_Witness ==
    /\ FaultFree
    /\ aggPc = "done"
    /\ \E i, j \in DOMAIN mapped :
           /\ mapped[i].mapped
           /\ ~mapped[j].mapped
           /\ mapped[j].id \notin DOMAIN eq_classes
           /\ mapped[i].id \in DOMAIN coverage

\* The read ids of the source are pairwise distinct.
DistinctIds ==
    \A i, j \in DOMAIN source :
        (source[i].kind = "ok" /\ source[j].kind = "ok" /\ source[i].id = source[j].id) => i = j

\* The read of the source that carries id k.
ReadWithId(k) == source[CHOOSE i \in DOMAIN source : source[i].id = k]

\* C10: for a fault-free source with pairwise distinct read ids the final
\* output maps are a function of the source alone: every interleaving ends
\* with each mapped read's id bound to that read's class and coverage.
C10_OutputDeterministic ==
    (FaultFree /\ DistinctIds /\ aggPc = "done") =>
        /\ eq_classes = [k \in MappedReadIds |-> map_read(ReadWithId(k).seq).eq_class]
        /\ coverage = [k \in MappedReadIds |-> map_read(ReadWithId(k).seq).coverage]

\* A finished run whose two mapped results arrived in the reverse of the
\* source's order.
C10_Witness ==
    /\ FaultFree
    /\ DistinctIds
    /\ aggPc = "done"
    /\ Len(source) >= 2
    /\ Len(mapped) >= 2
    /\ mapped[1].mapped /\ mapped[2].mapped
    /\ mapped[1].id = source[2].id
    /\ mapped[2].id = source[1].id
    /\ mapped[1].coverage # mapped[2].coverage

\* The last accumulated mapped result that carries read id k.
LastMapped(k) ==
    mapped[CHOOSE i \in DOMAIN mapped :
              /\ mapped[i].mapped /\ mapped[i].id = k
              /\ \A j \in DOMAIN mapped : (mapped[j].mapped /\ mapped[j].id = k) => j <= i]

\* C11: when several mapped results carry the same read id, each output map
\* holds one entry for that id, with the value of the result accumulated last.
C11_LastWriteWins ==
    aggPc = "done" =>
        \A k \in DOMAIN coverage :
            /\ k \in DOMAIN eq_classes
            /\ coverage[k] = LastMapped(k).coverage
            /\ eq_classes[k] = LastMapped(k).eq_class

\* Two mapped results with the same read id and different coverage were
\* accumulated, and the map holds the coverage of the second.
C11_Witness ==
    /\ aggPc = "done"
    /\ Len(mapped) >= 2
    /\ mapped[1].mapped /\ mapped[2].mapped
    /\ mapped[1].id = mapped[2].id
    /\ mapped[1].coverage # mapped[2].coverage
    /\ coverage[mapped[2].id] = mapped[2].coverage
    /\ DOMAIN coverage = {mapped[2].id}

\* The results still on their way to the consumer: buffered, or held by a
\* worker that has yet to send them.
ResultsInFlight ==
    Cardinality({i \in DOMAIN chan : chan[i].some})
        + Cardinality({w \in Workers : pc[w] = "send"})

\* The drain takes nothing off the channel.
C18_DrainTakesNothing == aggPc = "drain" => chan' = chan

\* C18: in a fault-free run, from the moment the consumer has counted its
\* num_threads-th sentinel no result is buffered or pending and every worker
\* has left its loop, every read's result is already accumulated, and the
\* drain that follows, which waits for the workers' senders to be dropped,
\* never takes a value off the channel.
C18_NothingLeftToDrain ==
    /\ []((FaultFree /\ aggPc = "drain") =>
            /\ chan = <<>>
            /\ ResultsInFlight = 0
            /\ \A w \in Workers : Stopped(w)
            /\ Len(mapped) = Len(source))
    /\ [][FaultFree => C18_DrainTakesNothing]_vars

\* The consumer has counted its last sentinel after accumulating the results
\* of a longest source, and waits in its drain for a worker that is still at
\* its break.
C18_Witness ==
    /\ FaultFree
    /\ aggPc = "drain"
    /\ dead_thread_count = num_threads
    /\ Len(source) = MaxReads
    /\ Len(mapped) = MaxReads
    /\ \E w \in Workers : pc[w] = "break"
    /\ ~ENABLED Drain

\* C19: in a fault-free run no send fails: while a worker still holds its
\* sender the receiver is alive, and the consumer has dropped its own sender
\* only with num_threads sentinels counted.
C19_NoSendFails ==
    FaultFree =>
        /\ \A w \in Workers : pc[w] # "sendfail"
        /\ \A w \in Workers : SenderAlive(w) => RxAlive
        /\ aggPc # "recv" => dead_thread_count = num_threads

\* All but one sentinel are counted, results were received, and the last
\* worker is about to send with the receiver alive.
C19_Witness ==
    /\ FaultFree
    /\ RxAlive
    /\ dead_thread_count = num_threads - 1
    /\ read_counter >= 1
    /\ \E w \in Workers : pc[w] = "send"

\* C20: every value stored in the read id -> equivalence class map is the
\* empty sequence.
C20_StoredClassesEmpty ==
    \A k \in DOMAIN eq_classes : eq_classes[k] = <<>>

\* A finished run that accumulated a result with a non-empty class and stored
\* an entry for another read.
C20_Witness ==
    /\ aggPc = "done"
    /\ DOMAIN eq_classes # {}
    /\ \E i \in DOMAIN mapped :
           /\ mapped[i].eq_class # <<>>
           /\ mapped[i].id \notin DOMAIN eq_classes

Min(a, b) == IF a <= b THEN a ELSE b

\* The paired positions at which two strings differ.
PairedDiffs(a, b) == {i \in 1..Min(Len(a), Len(b)) : a[i] # b[i]}

\* C12: mismatches returns min(2, number of paired positions at which the two
\* strings differ), the pairs running up to the length of the shorter string.
C12_MismatchesCapped ==
    mm_result # NotCalled =>
        mm_result = Some(Min(2, Cardinality(PairedDiffs(mm_sequence, mm_reference))))

\* mismatches("AAAA", "TTTT") has returned 2.
C12_Witness ==
    /\ mm_sequence = <<"A", "A", "A", "A">>
    /\ mm_reference = <<"T", "T", "T", "T">>
    /\ mm_result = Some(2)

\* The barcodes of the reads that some whitelist entry matches in all but at
\* most one paired position.
CorrectableBarcodes ==
    {b \in Range(barcodes) :
        \E e \in barcode_set : Cardinality(PairedDiffs(b, e)) <= 1}

\* C13: for a non-empty whitelist the strings of the output are exactly the
\* reads' barcodes within one mismatch of some whitelist entry, each as
\* extracted: a whitelist entry that is no read's barcode does not appear, and
\* a barcode two or more mismatches from every entry does not appear.
C13_ValidSet ==
    (cbPc = "done" /\ barcode_set # {}) =>
        /\ Range(valid_barcodes) = CorrectableBarcodes
        /\ Range(valid_barcodes) \subseteq Range(barcodes)

\* The output holds a barcode one mismatch from the whitelist that is not in
\* the whitelist, and leaves out a read's barcode two mismatches away.
C13_Witness ==
    /\ cbPc = "done"
    /\ barcode_set # {}
    /\ \E b \in Range(valid_barcodes) :
           /\ b \notin barcode_set
           /\ \A e \in barcode_set : Cardinality(PairedDiffs(b, e)) = 1
    /\ \E b \in Range(barcodes) :
           /\ b \notin Range(valid_barcodes)
           /\ \A e \in barcode_set : Cardinality(PairedDiffs(b, e)) >= 2
    /\ \E e \in barcode_set : e \notin Range(valid_barcodes)

\* C14: the output never holds the same barcode twice.
C14_NoDuplicates ==
    cbPc = "done" =>
        \A i, j \in DOMAIN valid_barcodes :
            valid_barcodes[i] = valid_barcodes[j] => i = j

\* Repeated reads of a whitelisted barcode, admitted by the exact pass and again
\* by the correction pass, appear once.
C14_Witness ==
    /\ cbPc = "done"
    /\ Len(barcodes) >= 2
    /\ barcodes[1] = barcodes[2]
    /\ barcodes[1] \in barcode_set
    /\ Contains(corrected_barcodes, barcodes[1])
    /\ valid_barcodes = <<barcodes[1]>>

IsSorted(list) ==
    \A i \in 1..(Len(list) - 1) : ~LexLess(list[i + 1], list[i])

\* C15: the output is in ascending string order.
C15_OutputSorted == cbPc = "done" => IsSorted(valid_barcodes)

\* C16: barcode correction never faults, whatever the reads and the whitelist.
C16_NoFault == cbPc # "panicked"

\* C17: UMI extraction returns one UMI per input read: it does not fault, the
\* list it returns is as long as the read list, and the UMI of a read of
\* UMI_END symbols or more is the read's own symbols at offsets UMI_START to
\* UMI_END - 1.
C17_UmiIsSubstring ==
    /\ umiPc # "panicked"
    /\ umiPc = "done" =>
           /\ Len(umis) = Len(read_records)
           /\ \A i \in DOMAIN read_records :
                  Len(read_records[i].seq) >= UMI_END =>
                      umis[i] = SubSeq(read_records[i].seq, UMI_START + 1, UMI_END)

====
